---- MODULE Spec2Model ----
(***************************************************************************)
(* The Indexer actor of quickwit-index/src/actors/indexer.rs.              *)
(*                                                                         *)
(* The actor handles one RawDocBatch at a time (SyncActor::process_message)*)
(* and the handler is a sequential piece of code.  Its positions are       *)
(*   "recv"  the actor waits for the next message (between two calls),     *)
(*   "loop"  the head of `for doc_json in batch.docs` (line 104),          *)
(*   "send"  inside send_to_packager, at sink.send_blocking (line 200).    *)
(* The steps of one call are forced by pc: ProcessMessage, then NextDoc    *)
(* once per document, then EndOfBatch, then (on a flush) SendBlocking.     *)
(* The batch is the handler's input; the loop never looks ahead, so the    *)
(* documents are drawn one by one as the iterator yields them and `msg`    *)
(* records those yielded so far in this call.                              *)
(*                                                                         *)
(* Spec is the actor over a writer that accepts every document; between   *)
(* two calls time may pass (Tick).  SpecWriterFails is the same actor over *)
(* a writer that may refuse a document.  SpecFlush is send_to_packager     *)
(* called on its own, from the position "call", on stage states with and   *)
(* without a current split.                                                *)
(***************************************************************************)
EXTENDS Integers, Sequences, FiniteSets

\* ---------------------------------------------------------------- bounds
\* Number of process_message calls in a run.
MaxMsgs == 2
\* Number of documents over all batches of a run.
MaxDocs == 3
\* Instants run from 0 to MaxTime.
MaxTime == 1
\* Splits the sink's mailbox holds before send_blocking blocks.
MailboxCapacity == 1

\* Option<T>: None, or Some(x) with the value at index 1.
None == << >>
Some(x) == << x >>

\* Values of commit_timeout given to try_new.
CommitTimeouts == {0, 1}
\* The field try_new gets from index_config.timestamp_field().
TimestampFields == {None, Some("ts")}

\* The raw documents batches are made of.  A raw document has a byte length
\* (doc_json.len()), is accepted by doc_from_json or not, and when accepted
\* may carry an i64 value in the timestamp field (None: no such value).
RawDocs ==
    { [len |-> 2, parse |-> "err", ts |-> None],
      [len |-> 1, parse |-> "ok",  ts |-> None],
      [len |-> 2, parse |-> "ok",  ts |-> Some(5)],
      [len |-> 1, parse |-> "ok",  ts |-> Some(1)],
      [len |-> 2, parse |-> "ok",  ts |-> Some(9)] }

VARIABLES
    commit_timeout,            \* Indexer.commit_timeout
    timestamp_field_opt,       \* Indexer.timestamp_field_opt
    next_commit_deadline_opt,  \* Indexer.next_commit_deadline_opt
    current_split_opt,         \* Indexer.current_split_opt
    counters,                  \* Indexer.counters
    sink,                      \* the mailbox behind Indexer.sink: splits queued
    sink_closed,               \* whether the mailbox's receiver is gone
    received,                  \* ids of the splits the packager has taken
    clock,                     \* the last instant Instant::now() returned
    pc,                        \* position of the handler
    indexed_split,             \* send_to_packager's local: the split taken
    result,                    \* what the last process_message call returned
    msg,                       \* documents of the current batch yielded so far
    entry,                     \* size_in_bytes and counters when the loop began
    nsplits,                   \* splits created so far
    routed,                    \* raw documents routed into the newest split
    nmsgs,                     \* process_message calls so far
    ndocs,                     \* documents processed so far
    write_failed,              \* whether an add_document of this call failed
    created_at                 \* the instant read when the newest split was made

vars == << commit_timeout, timestamp_field_opt, next_commit_deadline_opt,
           current_split_opt, counters, sink, sink_closed, received, clock,
           pc, indexed_split, result, msg, entry, nsplits, routed, nmsgs, ndocs,
           write_failed, created_at >>

\* ------------------------------------------------------------- helpers
Min(a, b) == IF a <= b THEN a ELSE b
Max(a, b) == IF a >= b THEN a ELSE b

\* IndexedSplit::new_in_dir: a fresh split; `split_id` is the identity of the
\* object, `docs` what its index_writer was given.
new_in_dir(id) ==
    [split_id |-> id, size_in_bytes |-> 0, time_range |-> None, docs |-> << >>]

\* IndexConfig::doc_from_json: Some(document) or None for a parse error.
doc_from_json(doc_json) ==
    IF doc_json.parse = "ok" THEN Some(doc_json) ELSE None

\* extract_timestamp that forgets `timestamp_field_opt?`: the value is read
\* whether or not the configuration designates a timestamp field.
extract_timestamp_NoFieldCheck(doc, field_opt) == doc.ts

\* extract_timestamp (lines 89-93).
extract_timestamp(doc, field_opt) ==
    IF field_opt = None THEN None ELSE doc.ts

\* The size added after parsing instead of before it: a document that fails
\* to parse is not counted.
AddSize_AfterParse(split, doc_json) ==
    IF doc_json.parse = "ok"
    THEN [split EXCEPT !.size_in_bytes = @ + doc_json.len]
    ELSE split

\* Line 105: indexed_split.size_in_bytes += doc_json.len().
AddSize(split, doc_json) ==
    [split EXCEPT !.size_in_bytes = @ + doc_json.len]

\* The range replaced by the last timestamp instead of merged with it.
new_timestamp_range_NoMerge(time_range, timestamp) == << timestamp, timestamp >>

\* Lines 116-122: the new range for a timestamp.
new_timestamp_range(time_range, timestamp) ==
    IF time_range # None
    THEN << Min(timestamp, time_range[1][1]), Max(timestamp, time_range[1][2]) >>
    ELSE << timestamp, timestamp >>

\* Lines 115-124: the split after the timestamp of a parsed document.
UpdateTimeRange(split, doc, field_opt) ==
    LET ts == extract_timestamp(doc, field_opt) IN
    IF ts # None
    THEN [split EXCEPT !.time_range = Some(new_timestamp_range(@, ts[1]))]
    ELSE split

\* Line 125: index_writer.add_document(doc).
add_document(split, doc) ==
    [split EXCEPT !.docs = Append(@, doc)]

\* Line 125: the statement `add_document(doc);` drops what the writer
\* returns, so the loop goes on whether or not the document was accepted.
AfterAddDocument(written) == "loop"

\* A parse error returned from the handler (`?` in place of `continue`).
AfterParseError_Abort == "recv"

\* Lines 108-113: after a parse error the loop goes on (`continue`).
AfterParseError == "loop"

\* Lines 108-114: what a parse error does to the counters.
OnParseError(c) == c

\* Lines 115-125: what an indexed document does to the counters.
OnDocIndexed(c) == c

\* Lines 104-126: one iteration of the loop on the current split.
LoopBody(split, doc_json, field_opt) ==
    LET sized  == AddSize(split, doc_json)
        parsed == doc_from_json(doc_json)
    IN  IF parsed = None
        THEN sized
        ELSE add_document(UpdateTimeRange(sized, parsed[1], field_opt), parsed[1])

\* Instant::now() (lines 132, 186): the clock is monotonic, so a read returns
\* an instant not before the last one read.
InstantNow(last) == last .. MaxTime

\* The deadline left as it is when there already is one: a deadline that
\* outlived its split is kept for the next split.
ArmDeadline_KeepStale(deadline_opt, now, timeout) ==
    IF deadline_opt # None THEN deadline_opt ELSE Some(now + timeout)

\* The deadline armed without the timeout.
ArmDeadline_NoTimeout(deadline_opt, now, timeout) == Some(now)

\* Line 186: next_commit_deadline_opt = Some(Instant::now() + commit_timeout),
\* whatever deadline was there before.
ArmDeadline(deadline_opt, now, timeout) == Some(now + timeout)

\* The comparison off by one: the deadline itself is not yet elapsed.
DeadlineElapsed_Strict(now, deadline) == now > deadline

\* Line 133: now >= deadline.
DeadlineElapsed(now, deadline) == now >= deadline

\* A timeout handler that drops the split for a flush once the deadline is
\* reached while the stage waits.
WhileWaiting_Flush(split_opt, deadline_opt, now) ==
    IF deadline_opt # None /\ now >= deadline_opt[1] THEN None ELSE split_opt

\* Lines 128-130: the deadline is looked at only in process_message, after
\* the loop; there is no timeout message, so while the stage waits for a
\* batch the passing of time leaves its split alone.
WhileWaiting(split_opt, deadline_opt, now) == split_opt

\* The split cloned for the send instead of taken: the stage keeps it.
TakeLeaves_Clone(split_opt) == split_opt

\* Line 195: what current_split_opt.take() leaves in the stage.
TakeLeaves(split_opt) == None

\* The split put back as the current split when its send fails.
OnSendError_PutBack(split_opt, taken_opt) == taken_opt

\* Lines 195-201: the split was moved out by take() and into send_blocking;
\* when the send fails `?` returns and current_split_opt stays as take()
\* left it.
OnSendError(split_opt, taken_opt) == split_opt

\* The no-split branch reporting a failure instead of Ok(()).
NoSplitResult_Err == "SendError"

\* Lines 197-198: with no current split send_to_packager returns Ok(()).
NoSplitResult == "Ok"

\* The send's result dropped (`let _ = send_blocking(..)`): always Ok.
SendToPackagerResult_Ignored(send_result) == "Ok"

\* Lines 200-201: send_blocking(..)?; Ok(()) -- the send's error is returned.
SendToPackagerResult(send_result) == send_result

\* The construction error swallowed: the call returns Ok.
CreateErrorResult_Swallowed(create_error) == "Ok"

\* Lines 184 and 103: create_indexed_split()? and indexed_split()? -- the
\* construction error is what process_message returns.
CreateErrorResult(create_error) == create_error

\* Line 134: send_to_packager()? -- its error is what process_message returns.
ProcessMessageResult(flush_result) == flush_result

\* ---------------------------------------------------------------- Init
\* The handler's locals outside a call.
NoEntry == [size_in_bytes |-> 0, counters |-> [parse_error |-> 0, docs |-> 0]]

\* try_new (lines 146-170).
Init ==
    /\ commit_timeout \in CommitTimeouts
    /\ timestamp_field_opt \in TimestampFields
    /\ next_commit_deadline_opt = None
    /\ current_split_opt = None
    /\ counters = [parse_error |-> 0, docs |-> 0]
    /\ sink = << >>
    /\ sink_closed = FALSE
    /\ received = << >>
    /\ clock = 0
    /\ pc = "recv"
    /\ indexed_split = None
    /\ result = "None"
    /\ msg = << >>
    /\ entry = NoEntry
    /\ nsplits = 0
    /\ routed = << >>
    /\ nmsgs = 0
    /\ ndocs = 0
    /\ write_failed = FALSE
    /\ created_at = None

\* ------------------------------------------------------------- actions
\* process_message returns r: the call's locals are gone.
Return(r) ==
    /\ result' = r
    /\ pc' = "recv"
    /\ msg' = << >>
    /\ entry' = NoEntry
    /\ write_failed' = FALSE

\* process_message, lines 101-103: a batch arrives; indexed_split() creates the
\* split and arms the deadline when there is none (lines 182-192).  `created`
\* is whether create_indexed_split succeeds; on failure `?` returns the error.
ProcessMessage ==
    /\ pc = "recv"
    /\ nmsgs < MaxMsgs
    /\ nmsgs' = nmsgs + 1
    /\ \E created \in BOOLEAN, now \in InstantNow(clock) :
         IF current_split_opt = None /\ ~created
         THEN /\ Return(CreateErrorResult("ProcessError"))
              /\ UNCHANGED << current_split_opt, next_commit_deadline_opt,
                              nsplits, routed, clock, created_at >>
         ELSE /\ IF current_split_opt = None
                 THEN /\ current_split_opt' = Some(new_in_dir(nsplits + 1))
                      /\ next_commit_deadline_opt' =
                           ArmDeadline(next_commit_deadline_opt, now, commit_timeout)
                      /\ nsplits' = nsplits + 1
                      /\ routed' = << >>
                      /\ clock' = now
                      /\ created_at' = Some(now)
                 ELSE UNCHANGED << current_split_opt, next_commit_deadline_opt,
                                   nsplits, routed, clock, created_at >>
              /\ entry' = [size_in_bytes |-> current_split_opt'[1].size_in_bytes,
                           counters |-> counters]
              /\ msg' = << >>
              /\ pc' = "loop"
              /\ UNCHANGED << result, write_failed >>
    /\ UNCHANGED << commit_timeout, timestamp_field_opt, counters, sink,
                    sink_closed, received, indexed_split, ndocs >>

\* Lines 104-126: the iterator yields doc_json and the loop body runs on it.
\* `written` is whether the writer accepts the document at line 125, drawn
\* from WriteOutcomes; after a first failure in a call the outcome of later
\* appends changes nothing and is not drawn again.
LoopIteration(WriteOutcomes) ==
    /\ pc = "loop"
    /\ ndocs < MaxDocs
    /\ \E doc_json \in RawDocs, written \in WriteOutcomes :
         /\ (doc_from_json(doc_json) = None \/ write_failed) => written
         /\ msg' = Append(msg, doc_json)
         /\ current_split_opt' =
              Some(LoopBody(current_split_opt[1], doc_json, timestamp_field_opt))
         /\ counters' = IF doc_from_json(doc_json) = None
                        THEN OnParseError(counters)
                        ELSE OnDocIndexed(counters)
         /\ routed' = Append(routed, doc_json)
         /\ pc' = IF doc_from_json(doc_json) = None
                  THEN AfterParseError
                  ELSE AfterAddDocument(written)
         /\ write_failed' = (write_failed \/ ~written)
    /\ ndocs' = ndocs + 1
    /\ UNCHANGED << commit_timeout, timestamp_field_opt,
                    next_commit_deadline_opt, sink, sink_closed, received,
                    clock, indexed_split, result, entry, nsplits, nmsgs,
                    created_at >>

\* The loop body with a writer that accepts every document.
NextDoc == LoopIteration({TRUE})

\* The loop body with a writer that may refuse a document.
NextDocWriterFails == LoopIteration(BOOLEAN)

\* Lines 128-139 with send_to_packager's lines 195-199: the iterator is
\* exhausted; the deadline is compared with Instant::now() and, when it has
\* elapsed, the current split is taken for the send.
EndOfBatch ==
    /\ pc = "loop"
    /\ IF next_commit_deadline_opt # None
       THEN \E now \in InstantNow(clock) :
              /\ clock' = now
              /\ IF DeadlineElapsed(now, next_commit_deadline_opt[1])
                 THEN IF current_split_opt # None
                      THEN /\ indexed_split' = current_split_opt
                           /\ current_split_opt' = TakeLeaves(current_split_opt)
                           /\ pc' = "send"
                           /\ UNCHANGED << result, msg, entry, write_failed >>
                      ELSE /\ Return(ProcessMessageResult(NoSplitResult))
                           /\ UNCHANGED << indexed_split, current_split_opt >>
                 ELSE /\ Return("Ok")
                      /\ UNCHANGED << indexed_split, current_split_opt >>
              /\ UNCHANGED next_commit_deadline_opt
       ELSE /\ next_commit_deadline_opt' = None
            /\ Return("Ok")
            /\ UNCHANGED << indexed_split, current_split_opt, clock >>
    /\ UNCHANGED << commit_timeout, timestamp_field_opt, counters, sink,
                    sink_closed, received, nsplits, routed, nmsgs, ndocs,
                    created_at >>

\* Line 200, Mailbox::send_blocking: Err when the receiver is gone, else the
\* split is queued once the mailbox has room; until then the sender is
\* blocked.  Lines 200-201 and 134-139 then return from process_message.
SendBlocking ==
    /\ pc = "send"
    /\ sink_closed \/ Len(sink) < MailboxCapacity
    /\ IF sink_closed
       THEN /\ Return(ProcessMessageResult(SendToPackagerResult("SendError")))
            /\ current_split_opt' = OnSendError(current_split_opt, indexed_split)
            /\ UNCHANGED sink
       ELSE /\ Return(ProcessMessageResult(SendToPackagerResult("Ok")))
            /\ sink' = Append(sink, indexed_split[1])
            /\ UNCHANGED current_split_opt
    /\ indexed_split' = None
    /\ UNCHANGED << commit_timeout, timestamp_field_opt,
                    next_commit_deadline_opt, counters,
                    sink_closed, received, clock, nsplits, routed, nmsgs,
                    ndocs, created_at >>

\* The packager takes the next split from its mailbox.
SinkReceive ==
    /\ sink # << >>
    /\ received' = Append(received, Head(sink).split_id)
    /\ sink' = Tail(sink)
    /\ UNCHANGED << commit_timeout, timestamp_field_opt,
                    next_commit_deadline_opt, current_split_opt, counters,
                    sink_closed, clock, pc, indexed_split, result, msg, entry,
                    nsplits, routed, nmsgs, ndocs, write_failed,
                    created_at >>

\* The packager goes away: the mailbox is closed.
CloseSink ==
    /\ ~sink_closed
    /\ sink_closed' = TRUE
    /\ UNCHANGED << commit_timeout, timestamp_field_opt,
                    next_commit_deadline_opt, current_split_opt, counters,
                    sink, received, clock, pc, indexed_split, result, msg,
                    entry, nsplits, routed, nmsgs, ndocs, write_failed,
                    created_at >>

\* Time passes while the actor waits for its next message.
Tick ==
    /\ pc = "recv"
    /\ clock < MaxTime
    /\ clock' = clock + 1
    /\ current_split_opt' =
         WhileWaiting(current_split_opt, next_commit_deadline_opt, clock')
    /\ UNCHANGED << commit_timeout, timestamp_field_opt,
                    next_commit_deadline_opt, counters, sink, sink_closed,
                    received, pc, indexed_split, result, msg, entry, nsplits,
                    routed, nmsgs, ndocs, write_failed,
                    created_at >>

Next ==
    \/ ProcessMessage
    \/ NextDoc
    \/ EndOfBatch
    \/ SendBlocking
    \/ SinkReceive
    \/ CloseSink
    \/ Tick

Spec == Init /\ [][Next]_vars

\* The same actor over a writer that can fail.
NextWriterFails ==
    \/ ProcessMessage
    \/ NextDocWriterFails
    \/ EndOfBatch
    \/ SendBlocking
    \/ SinkReceive
    \/ CloseSink
    \/ Tick

SpecWriterFails == Init /\ [][NextWriterFails]_vars

\* ------------------------------------------------ send_to_packager alone
\* The stage states send_to_packager is applied to: no split or a split that
\* has taken up to one document, any deadline, any state of the sink.
FlushSplits ==
    {None, Some(new_in_dir(1))}
    \cup { Some(LoopBody(new_in_dir(1), d, Some("ts"))) : d \in RawDocs }

InitFlush ==
    /\ commit_timeout \in CommitTimeouts
    /\ timestamp_field_opt = Some("ts")
    /\ next_commit_deadline_opt \in {None} \cup { Some(t) : t \in 0..MaxTime }
    /\ current_split_opt \in FlushSplits
    /\ counters = [parse_error |-> 0, docs |-> 0]
    /\ sink = << >>
    /\ sink_closed \in BOOLEAN
    /\ received = << >>
    /\ clock = 0
    /\ pc = "call"
    /\ indexed_split = None
    /\ result = "None"
    /\ msg = << >>
    /\ entry = NoEntry
    /\ nsplits = 1
    /\ routed = << >>
    /\ nmsgs = 0
    /\ ndocs = 0
    /\ write_failed = FALSE
    /\ created_at = None

\* send_to_packager, lines 194-199: the current split is taken for the send,
\* or, when there is none, Ok(()) is returned at once.
SendToPackager ==
    /\ pc = "call"
    /\ IF current_split_opt # None
       THEN /\ indexed_split' = current_split_opt
            /\ current_split_opt' = TakeLeaves(current_split_opt)
            /\ pc' = "send"
            /\ UNCHANGED << result, msg, entry, write_failed >>
       ELSE /\ Return(NoSplitResult)
            /\ UNCHANGED << indexed_split, current_split_opt >>
    /\ UNCHANGED << commit_timeout, timestamp_field_opt,
                    next_commit_deadline_opt, counters, sink, sink_closed,
                    received, clock, nsplits, routed, nmsgs, ndocs,
                    created_at >>

NextFlush ==
    \/ SendToPackager
    \/ SendBlocking
    \/ SinkReceive
    \/ CloseSink

SpecFlush == InitFlush /\ [][NextFlush]_vars

\* ------------------------------------------------- vocabulary of the claims
RECURSIVE SumLen(_)
\* The sum of the byte lengths of raw documents.
SumLen(docs) == IF docs = << >> THEN 0 ELSE Head(docs).len + SumLen(Tail(docs))

IsOk(d) == d.parse = "ok"
IsErr(d) == d.parse = "err"
\* The documents of a sequence that parse, in order.
ParsedDocs(docs) == SelectSeq(docs, IsOk)
NumParsed(docs) == Len(SelectSeq(docs, IsOk))
NumErrors(docs) == Len(SelectSeq(docs, IsErr))

\* s ends with t.
EndsWith(s, t) ==
    /\ Len(t) <= Len(s)
    /\ SubSeq(s, Len(s) - Len(t) + 1, Len(s)) = t

\* The timestamp values carried by the successfully parsed documents of a
\* sequence, under a configuration whose timestamp field is field_opt.
SeenTimestamps(docs, field_opt) ==
    IF field_opt = None
    THEN {}
    ELSE { docs[i].ts[1] :
             i \in { j \in 1..Len(docs) : IsOk(docs[j]) /\ docs[j].ts # None } }

\* [min, max] of a set of timestamps, None for the empty set.
RangeOf(S) ==
    IF S = {}
    THEN None
    ELSE Some(<< CHOOSE x \in S : \A y \in S : x <= y,
                 CHOOSE x \in S : \A y \in S : x >= y >>)

\* The stage is between two process_message calls.
BetweenCalls == pc = "recv"
\* A step in which the loop over the batch ends (lines 126-128).
BatchDone == pc = "loop" /\ pc' # "loop"
\* A step in which the loop body ran on one more document.
DocProcessed == pc = "loop" /\ pc' = "loop" /\ msg' # msg
\* A step in which send_blocking, and with it process_message, returns.
SendReturns == pc = "send" /\ pc' = "recv"
\* Ids of the splits the sink has accepted: those queued and those taken.
DeliveredIds ==
    { sink[i].split_id : i \in 1..Len(sink) }
    \cup { received[i] : i \in 1..Len(received) }

\* ------------------------------------------------------------------ C1
\* C1: between two process_message calls, next_commit_deadline_opt is Some
\* if and only if current_split_opt is Some.
C1_DeadlineIffSplit ==
    BetweenCalls =>
        ((next_commit_deadline_opt # None) <=> (current_split_opt # None))

\* ------------------------------------------------------------------ C2
\* What C2 says of the split a flush takes: it holds the documents of the
\* batch (the parsed ones at the end of its writer, the bytes of all of them
\* in its size).
HoldsBatch(split) ==
    /\ EndsWith(split.docs, ParsedDocs(msg))
    /\ split.size_in_bytes = entry.size_in_bytes + SumLen(msg)

\* The batch is over with a deadline armed and the time read at line 132 at
\* or past it.
ElapsedAtBatchEnd ==
    /\ BatchDone
    /\ next_commit_deadline_opt # None
    /\ clock' >= next_commit_deadline_opt[1]

\* C2 as stated: if the batch ends with the deadline armed and elapsed, then
\* within the same call the current split, holding the documents of the batch,
\* is sent to the sink and the stage is left Idle.
C2_FlushReachesSink ==
    [][ /\ ElapsedAtBatchEnd =>
             /\ pc' = "send"
             /\ indexed_split' = current_split_opt
             /\ HoldsBatch(indexed_split'[1])
             /\ current_split_opt' = None
        /\ SendReturns =>
             /\ sink' = Append(sink, indexed_split[1])
             /\ current_split_opt' = None
      ]_vars

\* C2 amended: if the batch ends with the deadline armed and elapsed, then
\* within the same call the current split, holding the documents of the batch,
\* is taken out of the stage (left Idle) and handed to send_blocking, which
\* queues it in the sink when the sink is open and otherwise fails, the call
\* returning the send error and the sink getting nothing.
C2_FlushAttempted ==
    [][ /\ ElapsedAtBatchEnd =>
             /\ pc' = "send"
             /\ indexed_split' = current_split_opt
             /\ HoldsBatch(indexed_split'[1])
             /\ current_split_opt' = None
        /\ SendReturns =>
             /\ current_split_opt' = None
             /\ IF sink_closed
                THEN sink' = sink /\ result' = "SendError"
                ELSE sink' = Append(sink, indexed_split[1]) /\ result' = "Ok"
      ]_vars

\* commit_timeout = 0 and one batch of three well-formed documents with the
\* timestamps 5, 1, 9: the split was sent within the call, the stage is Idle.
C2_Witness ==
    /\ commit_timeout = 0
    /\ BetweenCalls
    /\ current_split_opt = None
    /\ result = "Ok"
    /\ Len(sink) = 1
    /\ Len(sink[1].docs) = 3
    /\ sink[1].docs[1].ts = Some(5)
    /\ sink[1].docs[2].ts = Some(1)
    /\ sink[1].docs[3].ts = Some(9)
    /\ sink[1].time_range = Some(<< 1, 9 >>)

\* ------------------------------------------------------------------ C3
\* C3: over a batch the `docs` counter increases by exactly the number of
\* documents of the batch that parse successfully.
C3_DocsCounter ==
    [][ BatchDone => counters.docs = entry.counters.docs + NumParsed(msg) ]_vars

\* ------------------------------------------------------------------ C4
\* C4: over a batch with k documents that fail to parse, the `parse_error`
\* counter observable_state reports increases by exactly k.
C4_ParseErrorCounter ==
    [][ BatchDone =>
          counters.parse_error = entry.counters.parse_error + NumErrors(msg)
      ]_vars

\* ------------------------------------------------------------------ C5
\* C5: over a batch of n documents the size_in_bytes of the current split
\* increases by exactly the sum of the byte lengths of all n documents,
\* parsed or not (each document adds its own length), and size_in_bytes
\* never decreases while the split is the stage's.
C5_SizeInBytes ==
    [][ /\ BatchDone =>
             current_split_opt[1].size_in_bytes =
                 entry.size_in_bytes + SumLen(msg)
        /\ DocProcessed =>
             current_split_opt'[1].size_in_bytes =
                 current_split_opt[1].size_in_bytes + msg'[Len(msg')].len
        /\ (/\ current_split_opt # None
            /\ current_split_opt' # None
            /\ current_split_opt'[1].split_id = current_split_opt[1].split_id)
           => current_split_opt'[1].size_in_bytes
                 >= current_split_opt[1].size_in_bytes
        /\ (current_split_opt # None /\ indexed_split' # None)
           => indexed_split'[1].size_in_bytes
                 = current_split_opt[1].size_in_bytes
      ]_vars

\* A batch of a malformed document of 2 bytes and a well-formed one of 1 byte
\* has been processed into a split that already held bytes of an earlier
\* batch.
C5_Witness ==
    /\ pc = "loop"
    /\ Len(msg) = 2
    /\ IsErr(msg[1]) /\ IsOk(msg[2])
    /\ entry.size_in_bytes > 0
    /\ current_split_opt[1].size_in_bytes = entry.size_in_bytes + 3

\* ------------------------------------------------------------------ C6
\* The split the stage works on or has just taken for the send.
HeldSplits ==
    { x[1] : x \in { y \in {current_split_opt, indexed_split} : y # None } }

\* C6: a split's time_range is absent until the first successfully parsed
\* document carrying a timestamp value and then is [min, max] of the
\* timestamps of the successfully parsed documents routed into the split so
\* far, whatever their order; an update only widens it, and a document that
\* fails to parse or carries no timestamp leaves it unchanged.
C6_TimeRange ==
    [][ /\ \A split \in HeldSplits' :
             split.time_range' =
                 RangeOf(SeenTimestamps(routed', timestamp_field_opt'))
        /\ DocProcessed =>
             LET old  == current_split_opt[1].time_range
                 new  == current_split_opt'[1].time_range
                 last == msg'[Len(msg')]
             IN  /\ (old # None) =>
                       /\ new # None
                       /\ new[1][1] <= old[1][1]
                       /\ new[1][2] >= old[1][2]
                 /\ (IsErr(last) \/ last.ts = None
                       \/ timestamp_field_opt = None) => new = old
      ]_vars

\* Timestamps 5, 1, 9 arrived in that order over two batches of the same
\* split: the range is [1, 9].
C6_Witness ==
    /\ current_split_opt # None
    /\ current_split_opt[1].time_range = Some(<< 1, 9 >>)
    /\ Len(current_split_opt[1].docs) = 3
    /\ current_split_opt[1].docs[1].ts = Some(5)
    /\ current_split_opt[1].docs[2].ts = Some(1)
    /\ current_split_opt[1].docs[3].ts = Some(9)
    /\ Len(msg) < Len(routed)

\* ------------------------------------------------------------------ C7
\* C7: no split is created until the first document of an idle cycle arrives.
\* While Idle the stage holds no split and no deadline, and a batch without
\* documents received while Idle leaves the stage Idle: after the call no
\* split is held and none was taken for the sink that no document was ever
\* routed into.
C7_NoSplitBeforeFirstDoc ==
    /\ (BetweenCalls /\ current_split_opt = None)
          => next_commit_deadline_opt = None
    /\ (BetweenCalls /\ current_split_opt # None) => routed # << >>
    /\ (pc = "send") => routed # << >>

\* ------------------------------------------------------------------ C8
\* C8: after a flush the documents of a later batch go into a brand-new split
\* that starts with size_in_bytes = 0 and no time range; the size and time
\* range of a split handed to the sink are exactly those of the documents
\* processed between its creation and its flush, and a split the sink has
\* accepted gets no further document and no change.
Reflects(split, docs) ==
    /\ split.size_in_bytes = SumLen(docs)
    /\ split.time_range = RangeOf(SeenTimestamps(docs, timestamp_field_opt))
    /\ split.docs = ParsedDocs(docs)

C8_FreshSplitAfterFlush ==
    [][ /\ \A split \in HeldSplits' : Reflects(split, routed)'
        /\ (pc = "recv" /\ pc' = "loop" /\ current_split_opt = None) =>
             /\ routed' = << >>
             /\ current_split_opt'[1].size_in_bytes = 0
             /\ current_split_opt'[1].time_range = None
             /\ current_split_opt'[1].split_id \notin DeliveredIds
        /\ (SendReturns /\ ~sink_closed) =>
             /\ sink' = Append(sink, indexed_split[1])
             /\ Reflects(indexed_split[1], routed)
        /\ DocProcessed =>
             /\ current_split_opt'[1].split_id \notin DeliveredIds
             /\ sink' = sink
        /\ \A i \in 1..Len(sink) :
             \/ i <= Len(sink') /\ sink'[i] = sink[i]
             \/ sink' = Tail(sink) /\ received' = Append(received, sink[1].split_id)
      ]_vars

\* A first split of two documents was flushed and accepted by the sink, and
\* a later batch has put a document into a new split whose size and range
\* are those of that document alone.
C8_Witness ==
    /\ pc = "loop"
    /\ Len(sink) = 1
    /\ sink[1].size_in_bytes = 4
    /\ sink[1].time_range = Some(<< 5, 9 >>)
    /\ current_split_opt # None
    /\ current_split_opt[1].split_id = 2
    /\ current_split_opt[1].size_in_bytes = 1
    /\ current_split_opt[1].time_range = Some(<< 1, 1 >>)

\* ------------------------------------------------------------------ C9
\* C9: ownership of a split moves at the handoff: the split the stage holds
\* (current, or taken and not yet accepted) is never one the sink has
\* accepted, and no split is accepted by the sink twice.
C9_SingleOwner ==
    /\ \A split \in HeldSplits : split.split_id \notin DeliveredIds
    /\ (current_split_opt # None /\ indexed_split # None)
          => current_split_opt[1].split_id # indexed_split[1].split_id
    /\ Cardinality(DeliveredIds) = Len(sink) + Len(received)

\* A first split holding a document was handed over and is queued in the
\* sink, and a second one is the stage's current split.
C9_Witness ==
    /\ Len(sink) = 1
    /\ sink[1].split_id = 1
    /\ sink[1].docs # << >>
    /\ current_split_opt # None
    /\ current_split_opt[1].split_id = 2
    /\ current_split_opt[1].docs # << >>

\* ------------------------------------------------------------------ C10
\* C10: when the sink is closed as a flush is attempted, the flush does not
\* report success: send_to_packager returns the send error, process_message
\* returns it for that batch, and nothing reaches the sink; a flush into an
\* open sink returns Ok, so the two outcomes differ.
C10_SendErrorPropagates ==
    [][ SendReturns =>
          IF sink_closed
          THEN result' = "SendError" /\ sink' = sink
          ELSE result' = "Ok" /\ sink' # sink
      ]_vars

\* The sink was closed when a split holding a document was flushed: the call
\* returned the send error.
C10_Witness ==
    /\ BetweenCalls
    /\ sink_closed
    /\ result = "SendError"
    /\ routed # << >>
    /\ current_split_opt = None

\* ------------------------------------------------------------------ C11
\* C11: send_to_packager invoked when there is no current split is a no-op:
\* it returns success, sends nothing to the sink and leaves the stage's state
\* as it was.
C11_FlushWithoutSplit ==
    [][ (pc = "call" /\ pc' # "call" /\ current_split_opt = None) =>
          /\ result' = "Ok"
          /\ pc' = "recv"
          /\ sink' = sink
          /\ indexed_split' = None
          /\ UNCHANGED << current_split_opt, next_commit_deadline_opt,
                          counters, commit_timeout, timestamp_field_opt,
                          sink_closed, received >>
      ]_vars

\* send_to_packager has returned Ok for a stage without a split that still
\* carried a deadline: nothing is in the sink and nothing was taken from it.
C11_Witness ==
    /\ pc = "recv"
    /\ result = "Ok"
    /\ current_split_opt = None
    /\ next_commit_deadline_opt # None
    /\ sink = << >>
    /\ received = << >>

\* ------------------------------------------------------------------ C12
\* C12: a document that fails to parse never aborts the batch or the split:
\* after any document, malformed or not, the loop goes on with the same
\* split; every well-formed document, also one that follows a malformed one,
\* is appended in arrival order to that split's writer; and a call in which
\* no send fails returns success.
C12_ParseErrorSkipsDocument ==
    [][ /\ (pc = "loop" /\ Len(msg') > Len(msg)) =>
             LET doc_json == msg'[Len(msg')]
                 before   == current_split_opt[1]
                 after    == current_split_opt'[1]
             IN  /\ pc' = "loop"
                 /\ current_split_opt' # None
                 /\ after.split_id = before.split_id
                 /\ after.docs = IF IsOk(doc_json)
                                 THEN Append(before.docs, doc_json)
                                 ELSE before.docs
        /\ BatchDone =>
             /\ EndsWith(current_split_opt[1].docs, ParsedDocs(msg))
             /\ pc' = "recv" => result' = "Ok"
        /\ (SendReturns /\ ~sink_closed) => result' = "Ok"
      ]_vars

\* A batch of a well-formed, a malformed and a well-formed document has been
\* gone through: the split's writer holds the first and the third, in order.
C12_Witness ==
    /\ pc = "loop"
    /\ Len(msg) = 3
    /\ IsOk(msg[1]) /\ IsErr(msg[2]) /\ IsOk(msg[3])
    /\ msg[1] # msg[3]
    /\ current_split_opt # None
    /\ current_split_opt[1].docs = << msg[1], msg[3] >>

\* ------------------------------------------------------------------ C13
\* C13: a process_message call that returns without entering the loop is
\* one whose split construction failed while the stage had no split: it
\* returns the processing error, has processed no document (no size added,
\* nothing appended, nothing sent), and leaves the stage without a split,
\* with no second construction attempt inside the call.
C13_CreateErrorAborts ==
    [][ (pc = "recv" /\ nmsgs' # nmsgs) =>
          \/ /\ pc' = "loop"
             /\ current_split_opt' # None
          \/ /\ pc' = "recv"
             /\ result' = "ProcessError"
             /\ current_split_opt = None
             /\ current_split_opt' = None
             /\ UNCHANGED << next_commit_deadline_opt, counters, sink,
                             received, indexed_split, nsplits, ndocs, routed >>
      ]_vars

\* The first batch met a construction failure: the call returned the error,
\* the stage has no split and no deadline and no document was processed.
C13_Witness ==
    /\ pc = "recv"
    /\ nmsgs = 1
    /\ result = "ProcessError"
    /\ current_split_opt = None
    /\ next_commit_deadline_opt = None
    /\ nsplits = 0
    /\ ndocs = 0
    /\ sink = << >>

\* ------------------------------------------------------------------ C14
\* C14: a writer failure when appending a parsed document is surfaced: once
\* add_document has failed, the handler's next step ends the call with an
\* error; it neither takes another document nor returns success nor goes on
\* to a flush.
C14_WriterErrorSurfaced ==
    [][ (pc = "loop" /\ write_failed /\ (pc' # pc \/ Len(msg') > Len(msg))) =>
          /\ pc' = "recv"
          /\ result' \notin {"Ok", "None"}
      ]_vars

\* ------------------------------------------------------------------ C15
\* C15: the deadline is looked at only when a batch has been gone through.
\* While the stage waits for a batch, whatever the clock shows, its split
\* and its deadline stay as they are and nothing is sent; the split leaves
\* the stage only in the step that ends a batch.
C15_ExpiryOnlyAtBatchEnd ==
    [][ /\ (pc = "recv" /\ nmsgs' = nmsgs) =>
             /\ pc' = "recv"
             /\ UNCHANGED << current_split_opt, next_commit_deadline_opt,
                             indexed_split >>
             /\ sink' = sink \/ (sink # << >> /\ sink' = Tail(sink))
        /\ (current_split_opt # None /\ current_split_opt' = None) => BatchDone
      ]_vars

\* The stage waits with a split it holds unflushed while the clock has
\* reached the split's deadline; nothing has been sent.
C15_Witness ==
    /\ pc = "recv"
    /\ current_split_opt # None
    /\ next_commit_deadline_opt # None
    /\ clock >= next_commit_deadline_opt[1]
    /\ sink = << >>
    /\ received = << >>

C17_NoEarlyFlush ==
    [][ /\ (current_split_opt # None /\ current_split_opt' = None) =>
             /\ BatchDone
             /\ created_at # None
             /\ clock' >= created_at[1] + commit_timeout
        /\ (BatchDone /\ clock' < created_at[1] + commit_timeout) =>
             /\ pc' = "recv"
             /\ result' = "Ok"
             /\ current_split_opt' = current_split_opt
             /\ current_split_opt' # None
             /\ indexed_split' = None
             /\ sink' = sink
        /\ Len(sink') > Len(sink) =>
             /\ SendReturns
             /\ sink' = Append(sink, indexed_split[1])
      ]_vars

\* The deadline of the first split has passed and that split was flushed;
\* the second split, made at that instant, went through the end of its batch
\* at the same instant and is still the current split.
C17_Witness ==
    /\ pc = "recv"
    /\ result = "Ok"
    /\ commit_timeout > 0
    /\ nsplits = 2
    /\ 1 \in DeliveredIds
    /\ current_split_opt # None
    /\ current_split_opt[1].split_id = 2
    /\ created_at # None
    /\ clock < created_at[1] + commit_timeout

\* ------------------------------------------------------------------ C18
\* C18: the deadline is armed once per split, in the step that creates it,
\* as the creation instant plus commit_timeout; no other step changes
\* next_commit_deadline_opt, so the batches that go into a split leave its
\* deadline as it was armed.
C18_DeadlineArmedAtCreation ==
    [][ /\ (current_split_opt = None /\ current_split_opt' # None) =>
             /\ created_at' = Some(clock')
             /\ next_commit_deadline_opt' = Some(clock' + commit_timeout)
        /\ current_split_opt # None =>
             next_commit_deadline_opt' = next_commit_deadline_opt
        /\ next_commit_deadline_opt' # next_commit_deadline_opt =>
             (current_split_opt = None /\ current_split_opt' # None)
      ]_vars

\* A second batch is going into the first split at a later instant than the
\* split's creation: the deadline is still creation instant plus timeout.
C18_Witness ==
    /\ pc = "loop"
    /\ nmsgs = 2
    /\ nsplits = 1
    /\ msg # << >>
    /\ Len(routed) > Len(msg)
    /\ created_at # None
    /\ clock > created_at[1]
    /\ next_commit_deadline_opt = Some(created_at[1] + commit_timeout)

\* ------------------------------------------------------------------ C19
\* C19: the split is detached before the send, so when the send fails the
\* stage is left without a current split and without the split it tried to
\* send, which never enters the sink; the next batch that gets a split gets
\* a new, empty one.
C19_FailedSendLosesSplit ==
    [][ /\ (SendReturns /\ result' = "SendError") =>
             /\ current_split_opt' = None
             /\ indexed_split' = None
             /\ sink' = sink
        /\ (pc = "recv" /\ result = "SendError") => current_split_opt = None
        /\ (pc = "recv" /\ result = "SendError" /\ pc' = "loop") =>
             /\ nsplits' = nsplits + 1
             /\ current_split_opt' = Some(new_in_dir(nsplits'))
             /\ \A i \in 1..Len(sink') : sink'[i].split_id # nsplits
      ]_vars

\* The send of the first split failed on a closed sink; the next batch is
\* going into a second split and the first one is nowhere.
C19_Witness ==
    /\ pc = "loop"
    /\ result = "SendError"
    /\ sink_closed
    /\ nsplits = 2
    /\ current_split_opt # None
    /\ current_split_opt[1].split_id = 2
    /\ msg # << >>
    /\ 1 \notin DeliveredIds

====
